---------------------------- MODULE Spec2Model ----------------------------
(***************************************************************************)
(* A model of cursive-markup's MarkupView (src/src/lib.rs): the cached     *)
(* RenderedDocument, its LinkHandler (the links and the focus index), and  *)
(* the view's operations render, take_focus and on_event.                  *)
(*                                                                         *)
(* Indices are 0-based as in the Rust code: link i of a handler lh is      *)
(* lh.links[i + 1].  An Option<T> is a sequence of length 0 (None) or 1    *)
(* (Some).  An XY<usize> is a record [x, y].                               *)
(***************************************************************************)
EXTENDS Integers, Sequences, FiniteSets, TLC

VARIABLES doc, on_link_focus, on_link_select, maximum_width, last

vars == <<doc, on_link_focus, on_link_select, maximum_width, last>>

(***************************************************************************)
(* Bounds of the model.                                                    *)
(***************************************************************************)
\* SpecDoc: the lines of the document, and its elements over all lines
MaxLines == 3
MaxElems == 3
\* Spec: the elements of the one line the renderer lays out
MaxRenderElems == 2
\* the widths and heights the host offers are 0 .. MaxSize
MaxSize == 1

(***************************************************************************)
(* Option, XY                                                              *)
(***************************************************************************)
None == <<>>
Some(v) == <<v>>
IsSome(o) == Len(o) = 1
Unwrap(o) == o[1]

XY(a, b) == [x |-> a, y |-> b]

Max(a, b) == IF a >= b THEN a ELSE b
Min(a, b) == IF a <= b THEN a ELSE b

\* XY::stack_horizontal in its place: widths add, heights are maximised
StackHorizontal(s, o) == XY(s.x + o.x, Max(s.y, o.y))

\* XY::stack_vertical as push_line uses it: widths are maximised, heights add
StackVertical(s, o) == XY(Max(s.x, o.x), s.y + o.y)

(***************************************************************************)
(* Elements.  A text is a sequence of characters; the character "W" stands *)
(* for a double-width character, every other one occupies one cell.        *)
(***************************************************************************)
CharWidth(c) == IF c = "W" THEN 2 ELSE 1

RECURSIVE TextWidth(_)
TextWidth(text) ==
    IF text = <<>> THEN 0
    ELSE CharWidth(Head(text)) + TextWidth(Tail(text))

\* Element::new
NewElement(text, style, link_target) ==
    [text |-> text, style |-> style, link_target |-> link_target]

\* Element::plain
PlainElement(text) == NewElement(text, "default", None)

\* Element::link
LinkElement(text, style, target) == NewElement(text, style, Some(target))

\* the elements a renderer hands to push_line in this model
Elements ==
    { PlainElement(<<"a">>),
      LinkElement(<<"b">>, "underline", "u"),
      LinkElement(<<"W">>, "underline", "v") }

(***************************************************************************)
(* LinkHandler                                                             *)
(***************************************************************************)
\* LinkHandler::default
DefaultLinkHandler == [links |-> <<>>, focus |-> 0]

NewLink(position, width, target) ==
    [position |-> position, width |-> width, target |-> target]

\* the link with 0-based index i
LinkAt(lh, i) == lh.links[i + 1]

\* push returning the number of links after the push
LinkHandlerPushLen(lh, link) ==
    [lh  |-> [lh EXCEPT !.links = Append(@, link)],
     idx |-> Len(lh.links) + 1]

\* LinkHandler::push: the handler afterwards and the index returned
LinkHandlerPush(lh, link) ==
    [lh  |-> [lh EXCEPT !.links = Append(@, link)],
     idx |-> Len(lh.links) + 1 - 1]

\* RelOf with Absolute::None taken for a direction toward the end
RelOfNoneBack(direction) ==
    IF direction.kind = "Abs"
    THEN IF direction.dir \in {"Up", "Left"} THEN "Front" ELSE "Back"
    ELSE direction.dir

\* the match of take_focus: the relative direction of a Direction
RelOf(direction) ==
    IF direction.kind = "Abs"
    THEN IF direction.dir \in {"Up", "Left", "None"} THEN "Front" ELSE "Back"
    ELSE direction.dir

\* LinkHandler::take_focus: the handler afterwards and the value returned
LhTakeFocus(lh, direction) ==
    IF lh.links = <<>>
    THEN [lh |-> lh, ret |-> FALSE]
    ELSE [lh  |-> [lh EXCEPT !.focus = IF RelOf(direction) = "Front"
                                        THEN 0
                                        ELSE Len(lh.links) - 1],
          ret |-> TRUE]

\* move_focus_horizontal without the comparison of the two rows
MoveFocusHorizontalAnyRow(lh, direction) ==
    IF lh.links = <<>>
    THEN [lh |-> lh, ret |-> FALSE]
    ELSE LET new_focus ==
                 IF direction = "Front"
                 THEN IF lh.focus >= 1 THEN Some(lh.focus - 1) ELSE None
                 ELSE IF lh.focus < Len(lh.links) - 1
                      THEN Some(lh.focus + 1)
                      ELSE None
         IN  IF IsSome(new_focus)
             THEN [lh |-> [lh EXCEPT !.focus = Unwrap(new_focus)], ret |-> TRUE]
             ELSE [lh |-> lh, ret |-> FALSE]

\* move_focus_horizontal that wraps around at the first and the last link
MoveFocusHorizontalWrapping(lh, direction) ==
    IF lh.links = <<>>
    THEN [lh |-> lh, ret |-> FALSE]
    ELSE LET new_focus ==
                 IF direction = "Front"
                 THEN IF lh.focus >= 1 THEN lh.focus - 1 ELSE Len(lh.links) - 1
                 ELSE IF lh.focus < Len(lh.links) - 1 THEN lh.focus + 1 ELSE 0
         IN  IF new_focus # lh.focus
                /\ LinkAt(lh, lh.focus).position.y = LinkAt(lh, new_focus).position.y
             THEN [lh |-> [lh EXCEPT !.focus = new_focus], ret |-> TRUE]
             ELSE [lh |-> lh, ret |-> FALSE]

\* LinkHandler::move_focus_horizontal
MoveFocusHorizontal(lh, direction) ==
    IF lh.links = <<>>
    THEN [lh |-> lh, ret |-> FALSE]
    ELSE LET new_focus ==
                 IF direction = "Front"
                 THEN IF lh.focus >= 1 THEN Some(lh.focus - 1) ELSE None
                 ELSE IF lh.focus < Len(lh.links) - 1
                      THEN Some(lh.focus + 1)
                      ELSE None
         IN  IF IsSome(new_focus)
             THEN IF LinkAt(lh, lh.focus).position.y
                         = LinkAt(lh, Unwrap(new_focus)).position.y
                  THEN [lh |-> [lh EXCEPT !.focus = Unwrap(new_focus)], ret |-> TRUE]
                  ELSE [lh |-> lh, ret |-> FALSE]
             ELSE [lh |-> lh, ret |-> FALSE]

\* find with the rows compared by <= and >=
RECURSIVE FindRowNonStrict(_, _, _, _)
FindRowNonStrict(idxs, lh, y, direction) ==
    IF idxs = <<>> THEN None
    ELSE IF (direction = "Front" /\ LinkAt(lh, Head(idxs)).position.y <= y)
            \/ (direction = "Back" /\ LinkAt(lh, Head(idxs)).position.y >= y)
         THEN Some(Head(idxs))
         ELSE FindRowNonStrict(Tail(idxs), lh, y, direction)

\* Iterator::find over a sequence of link indices: the first index whose row
\* is above (Front) or below (Back) row y
RECURSIVE FindRow(_, _, _, _)
FindRow(idxs, lh, y, direction) ==
    IF idxs = <<>> THEN None
    ELSE IF (direction = "Front" /\ LinkAt(lh, Head(idxs)).position.y < y)
            \/ (direction = "Back" /\ LinkAt(lh, Head(idxs)).position.y > y)
         THEN Some(Head(idxs))
         ELSE FindRow(Tail(idxs), lh, y, direction)

\* the links before the focus without rev(): the indices 0, 1, ..., focus-1
RevSkipAscending(lh) == [k \in 1 .. lh.focus |-> k - 1]

\* iter.rev().skip(len - focus): the indices focus-1, focus-2, ..., 0
RevSkip(lh) == [k \in 1 .. lh.focus |-> lh.focus - k]

\* the links after the focus from the end: the indices len-1, ..., focus+1
FwdSkipDescending(lh) ==
    [k \in 1 .. (Len(lh.links) - 1 - lh.focus) |-> Len(lh.links) - k]

\* iter.skip(focus + 1): the indices focus+1, ..., len-1
FwdSkip(lh) == [k \in 1 .. (Len(lh.links) - 1 - lh.focus) |-> lh.focus + k]

\* find for the link rows next to row y only
RECURSIVE FindAdjacentRow(_, _, _, _)
FindAdjacentRow(idxs, lh, y, direction) ==
    IF idxs = <<>> THEN None
    ELSE IF (direction = "Front" /\ LinkAt(lh, Head(idxs)).position.y + 1 = y)
            \/ (direction = "Back" /\ LinkAt(lh, Head(idxs)).position.y = y + 1)
         THEN Some(Head(idxs))
         ELSE FindAdjacentRow(Tail(idxs), lh, y, direction)

\* move_focus_vertical looking at the row just above or just below only
MoveFocusVerticalAdjacentRow(lh, direction) ==
    IF lh.links = <<>>
    THEN [lh |-> lh, ret |-> FALSE]
    ELSE LET y    == LinkAt(lh, lh.focus).position.y
             next == IF direction = "Front"
                     THEN FindAdjacentRow(RevSkip(lh), lh, y, "Front")
                     ELSE FindAdjacentRow(FwdSkip(lh), lh, y, "Back")
         IN  IF IsSome(next)
             THEN [lh |-> [lh EXCEPT !.focus = Unwrap(next)], ret |-> TRUE]
             ELSE [lh |-> lh, ret |-> FALSE]

\* move_focus_vertical going on, toward the front, to the first link of the
\* row it found
MoveFocusVerticalToRowStart(lh, direction) ==
    IF lh.links = <<>>
    THEN [lh |-> lh, ret |-> FALSE]
    ELSE LET y    == LinkAt(lh, lh.focus).position.y
             next == IF direction = "Front"
                     THEN FindRow(RevSkip(lh), lh, y, "Front")
                     ELSE FindRow(FwdSkip(lh), lh, y, "Back")
             first == CHOOSE i \in 0 .. Unwrap(next) :
                        /\ LinkAt(lh, i).position.y = LinkAt(lh, Unwrap(next)).position.y
                        /\ \A k \in 0 .. (i - 1) :
                             LinkAt(lh, k).position.y # LinkAt(lh, i).position.y
         IN  IF IsSome(next)
             THEN [lh |-> [lh EXCEPT !.focus = first], ret |-> TRUE]
             ELSE [lh |-> lh, ret |-> FALSE]

\* LinkHandler::move_focus_vertical
MoveFocusVertical(lh, direction) ==
    IF lh.links = <<>>
    THEN [lh |-> lh, ret |-> FALSE]
    ELSE LET y    == LinkAt(lh, lh.focus).position.y
             next == IF direction = "Front"
                     THEN FindRow(RevSkip(lh), lh, y, "Front")
                     ELSE FindRow(FwdSkip(lh), lh, y, "Back")
         IN  IF IsSome(next)
             THEN [lh |-> [lh EXCEPT !.focus = Unwrap(next)], ret |-> TRUE]
             ELSE [lh |-> lh, ret |-> FALSE]

\* move_focus with Up mapped to Relative::Back as Down is
MoveFocusUpAsDown(lh, direction) ==
    CASE direction = "Left"  -> MoveFocusHorizontal(lh, "Front")
      [] direction = "Right" -> MoveFocusHorizontal(lh, "Back")
      [] direction = "Up"    -> MoveFocusVertical(lh, "Back")
      [] direction = "Down"  -> MoveFocusVertical(lh, "Back")
      [] OTHER               -> [lh |-> lh, ret |-> FALSE]

\* LinkHandler::move_focus
MoveFocus(lh, direction) ==
    CASE direction = "Left"  -> MoveFocusHorizontal(lh, "Front")
      [] direction = "Right" -> MoveFocusHorizontal(lh, "Back")
      [] direction = "Up"    -> MoveFocusVertical(lh, "Front")
      [] direction = "Down"  -> MoveFocusVertical(lh, "Back")
      [] OTHER               -> [lh |-> lh, ret |-> FALSE]

(***************************************************************************)
(* RenderedDocument                                                        *)
(***************************************************************************)
\* RenderedDocument::new
NewDocument(constraint) ==
    [lines        |-> <<>>,
     link_handler |-> DefaultLinkHandler,
     size         |-> XY(0, 0),
     constraint   |-> constraint]

\* the loop of push_line with x advanced before the link is registered
RECURSIVE PushElementsAdvanceFirst(_, _, _)
PushElementsAdvanceFirst(acc, y, line) ==
    IF line = <<>> THEN acc
    ELSE LET element == Head(line)
             width   == TextWidth(element.text)
             pushed  == LinkHandlerPush(acc.lh,
                            NewLink(XY(acc.x + width, y), width,
                                    Unwrap(element.link_target)))
             isLink  == IsSome(element.link_target)
         IN  PushElementsAdvanceFirst(
                 [lh |-> IF isLink THEN pushed.lh ELSE acc.lh,
                  x  |-> acc.x + width,
                  rendered_line |->
                      Append(acc.rendered_line,
                             [text     |-> element.text,
                              style    |-> element.style,
                              link_idx |-> IF isLink THEN Some(pushed.idx) ELSE None])],
                 y, Tail(line))

\* the loop of push_line with each element converted by
\* From<Element> for RenderedElement, which sets no link index
RECURSIVE PushElementsFromElement(_, _, _)
PushElementsFromElement(acc, y, line) ==
    IF line = <<>> THEN acc
    ELSE LET element == Head(line)
             width   == TextWidth(element.text)
             pushed  == LinkHandlerPush(acc.lh,
                            NewLink(XY(acc.x, y), width, Unwrap(element.link_target)))
             isLink  == IsSome(element.link_target)
         IN  PushElementsFromElement(
                 [lh |-> IF isLink THEN pushed.lh ELSE acc.lh,
                  x  |-> acc.x + width,
                  rendered_line |->
                      Append(acc.rendered_line,
                             [text     |-> element.text,
                              style    |-> element.style,
                              link_idx |-> None])],
                 y, Tail(line))

\* the loop of push_line over the elements of one line: acc holds the
\* handler, the running x and the rendered line built so far
RECURSIVE PushElements(_, _, _)
PushElements(acc, y, line) ==
    IF line = <<>> THEN acc
    ELSE LET element == Head(line)
             width   == TextWidth(element.text)
             pushed  == LinkHandlerPush(acc.lh,
                            NewLink(XY(acc.x, y), width, Unwrap(element.link_target)))
             isLink  == IsSome(element.link_target)
         IN  PushElements(
                 [lh |-> IF isLink THEN pushed.lh ELSE acc.lh,
                  x  |-> acc.x + width,
                  rendered_line |->
                      Append(acc.rendered_line,
                             [text     |-> element.text,
                              style    |-> element.style,
                              link_idx |-> IF isLink THEN Some(pushed.idx) ELSE None])],
                 y, Tail(line))

\* RenderedDocument::push_line
PushLine(d, line) ==
    LET y   == Len(d.lines)
        acc == PushElements([lh |-> d.link_handler, x |-> 0, rendered_line |-> <<>>],
                            y, line)
    IN  [d EXCEPT !.lines = Append(@, acc.rendered_line),
                  !.link_handler = acc.lh,
                  !.size = StackVertical(@, XY(acc.x, 1))]


\* the Renderer the view owns, as html::Renderer::render builds a document:
\* a new document for the constraint, then one push_line per rendered line
RECURSIVE PushLines(_, _)
PushLines(d, lines) ==
    IF lines = <<>> THEN d
    ELSE PushLines(PushLine(d, Head(lines)), Tail(lines))

RendererRender(constraint, lines) == PushLines(NewDocument(constraint), lines)

(***************************************************************************)
(* Inputs                                                                  *)
(***************************************************************************)
\* the sequences of at most n elements of S
SeqsUpTo(S, n) == UNION { [1 .. m -> S] : m \in 0 .. n }

\* the sequences of at most k lines that hold at most n elements in all
RECURSIVE LineSeqs(_, _)
LineSeqs(k, n) ==
    IF k = 0 THEN { <<>> }
    ELSE { <<>> } \cup
         UNION { { <<l>> \o rest : rest \in LineSeqs(k - 1, n - Len(l)) } :
                 l \in SeqsUpTo(Elements, n) }

\* what the renderer's markup engine lays out in Spec: nothing, or one line
RenderedLines == { <<>> } \cup { <<l>> : l \in SeqsUpTo(Elements, MaxRenderElems) }

\* what it lays out in SpecDoc
DocLines == LineSeqs(MaxLines, MaxElems)

Sizes == 0 .. MaxSize
Constraints == { XY(w, h) : w \in Sizes, h \in Sizes }

\* the constraint of SpecDoc: the host never resizes the view
DocConstraints == { XY(MaxSize, MaxSize) }

\* the documents the renderer may return for each constraint
Rendered == [c \in Constraints |-> { RendererRender(c, ls) : ls \in RenderedLines }]
DocRendered == [c \in DocConstraints |-> { RendererRender(c, ls) : ls \in DocLines }]

\* cursive_core::direction::Direction
Directions ==
    { [kind |-> "Abs", dir |-> d] : d \in {"Up", "Down", "Left", "Right", "None"} }
    \cup { [kind |-> "Rel", dir |-> d] : d \in {"Front", "Back"} }

\* the events delivered to on_event: the four arrow keys, Enter, and Tab for
\* every other event
Events == {"Left", "Right", "Up", "Down", "Enter", "Tab"}
ArrowKeys == {"Left", "Right", "Up", "Down"}

(***************************************************************************)
(* MarkupView                                                              *)
(***************************************************************************)
\* the record of the last call: the operation, its argument, what it
\* returned and, for render, whether it invoked the renderer and the value
\* of its local last_focus when it returned
RenderCall(constraint, ret, invoked, last_focus) ==
    [op |-> "render", arg |-> constraint, ret |-> ret,
     invoked |-> invoked, last_focus |-> last_focus]

Call(op, arg, ret) ==
    [op |-> op, arg |-> arg, ret |-> ret, invoked |-> FALSE, last_focus |-> 0]

\* MarkupView::with_renderer
Init ==
    /\ doc = None
    /\ on_link_focus = None
    /\ on_link_select = None
    /\ maximum_width = None
    /\ last = Call("with_renderer", None, None)

\* MarkupView::on_link_focus
OnLinkFocus ==
    /\ on_link_focus' = Some("f")
    /\ last' = Call("on_link_focus", None, None)
    /\ UNCHANGED <<doc, on_link_select, maximum_width>>

\* MarkupView::on_link_select
OnLinkSelect ==
    /\ on_link_select' = Some("g")
    /\ last' = Call("on_link_select", None, None)
    /\ UNCHANGED <<doc, on_link_focus, maximum_width>>

\* MarkupView::set_maximum_width
SetMaximumWidth(width) ==
    /\ maximum_width' = Some(width)
    /\ last' = Call("set_maximum_width", width, None)
    /\ UNCHANGED <<doc, on_link_focus, on_link_select>>

\* the clamp taking the larger of maximum_width and the requested width
ClampedToLarger(constraint) ==
    IF IsSome(maximum_width)
    THEN [constraint EXCEPT !.x = Max(Unwrap(maximum_width), constraint.x)]
    ELSE constraint

\* the constraint of render after the clamp to maximum_width
Clamped(constraint) ==
    IF IsSome(maximum_width)
    THEN [constraint EXCEPT !.x = Min(Unwrap(maximum_width), constraint.x)]
    ELSE constraint

\* the cache test on the width as requested, before the clamp
CacheHitUnclamped(constraint) ==
    /\ IsSome(doc)
    /\ constraint.x = Unwrap(doc).constraint.x

\* the cache test on the width and the height
CacheHitExact(constraint) ==
    /\ IsSome(doc)
    /\ Clamped(constraint) = Unwrap(doc).constraint

\* render returns the cached size: a document is cached for this width
CacheHit(constraint) ==
    /\ IsSome(doc)
    /\ Clamped(constraint).x = Unwrap(doc).constraint.x

\* last_focus of render: the focus of the cached document, if any
LastFocus ==
    IF IsSome(doc) THEN Unwrap(doc).link_handler.focus ELSE 0

\* the old focus kept without the test against the new links
WithLastFocusUnchecked(d, last_focus) ==
    [d EXCEPT !.link_handler.focus = last_focus]

\* the old focus kept when it is at most the number of the new links
WithLastFocusOffByOne(d, last_focus) ==
    IF last_focus <= Len(d.link_handler.links)
    THEN [d EXCEPT !.link_handler.focus = last_focus]
    ELSE d

\* the focus render gives the document the renderer returned
WithLastFocus(d, last_focus) ==
    IF last_focus < Len(d.link_handler.links)
    THEN [d EXCEPT !.link_handler.focus = last_focus]
    ELSE d

\* MarkupView::render (called by layout and required_size); renderer[c] is
\* what self.renderer.render(c) may return
Render(constraint, renderer) ==
    IF CacheHit(constraint)
    THEN /\ last' = RenderCall(constraint, Unwrap(doc).size, FALSE, 0)
         /\ UNCHANGED <<doc, on_link_focus, on_link_select, maximum_width>>
    ELSE \E rendered \in renderer[Clamped(constraint)] :
           LET d == WithLastFocus(rendered, LastFocus)
           IN  /\ doc' = Some(d)
               /\ last' = RenderCall(constraint, d.size, TRUE, LastFocus)
               /\ UNCHANGED <<on_link_focus, on_link_select, maximum_width>>

\* take_focus moving the document out of the cache with Option::take
TakeFocusTaking(direction) ==
    /\ IF IsSome(doc)
       THEN LET r == LhTakeFocus(Unwrap(doc).link_handler, direction)
            IN  /\ doc' = None
                /\ last' = Call("take_focus", direction, r.ret)
       ELSE /\ doc' = doc
            /\ last' = Call("take_focus", direction, FALSE)
    /\ UNCHANGED <<on_link_focus, on_link_select, maximum_width>>

\* MarkupView::draw: the <<line, element>> places whose style draw combines
\* with Highlight, for a printer that is focused or not
DrawHighlighted(d, focused) ==
    { p \in UNION { { <<y, j>> : j \in 1 .. Len(d.lines[y]) } :
                    y \in 1 .. Len(d.lines) } :
        /\ IsSome(d.lines[p[1]][p[2]].link_idx)
        /\ focused
        /\ d.link_handler.focus = Unwrap(d.lines[p[1]][p[2]].link_idx) }

\* MarkupView::take_focus
TakeFocus(direction) ==
    /\ IF IsSome(doc)
       THEN LET r == LhTakeFocus(Unwrap(doc).link_handler, direction)
            IN  /\ doc' = Some([Unwrap(doc) EXCEPT !.link_handler = r.lh])
                /\ last' = Call("take_focus", direction, r.ret)
       ELSE /\ doc' = doc
            /\ last' = Call("take_focus", direction, FALSE)
    /\ UNCHANGED <<on_link_focus, on_link_select, maximum_width>>

\* EventResult::Ignored, EventResult::Consumed(callback)
Ignored == [result |-> "Ignored", callback |-> None]
Consumed(callback) == [result |-> "Consumed", callback |-> callback]

\* Option::map over a registered callback: the callback bound to the target
Bind(f, target) ==
    IF IsSome(f) THEN Some([f |-> Unwrap(f), target |-> target]) ELSE None

\* the match of on_event: the arrow keys move the focus
EventMove(lh, event) ==
    IF event \in ArrowKeys
    THEN MoveFocus(lh, event)
    ELSE [lh |-> lh, ret |-> FALSE]

\* on_event consuming Enter, without a callback, when there is no link
OnEventConsumesEnter(event) ==
    /\ IF doc = None \/ Unwrap(doc).link_handler.links = <<>>
       THEN /\ doc' = doc
            /\ last' = Call("on_event", event,
                            IF event = "Enter" THEN Consumed(None) ELSE Ignored)
       ELSE LET r == EventMove(Unwrap(doc).link_handler, event)
                focus_changed == r.ret
                target == LinkAt(r.lh, r.lh.focus).target
            IN  /\ doc' = Some([Unwrap(doc) EXCEPT !.link_handler = r.lh])
                /\ last' = Call("on_event", event,
                                IF focus_changed
                                THEN Consumed(Bind(on_link_focus, target))
                                ELSE IF event = "Enter"
                                     THEN Consumed(Bind(on_link_select, target))
                                     ELSE Ignored)
    /\ UNCHANGED <<on_link_focus, on_link_select, maximum_width>>

\* on_event reading the target before the move
OnEventTargetBeforeMove(event) ==
    /\ IF doc = None \/ Unwrap(doc).link_handler.links = <<>>
       THEN /\ doc' = doc
            /\ last' = Call("on_event", event, Ignored)
       ELSE LET r == EventMove(Unwrap(doc).link_handler, event)
                focus_changed == r.ret
                target == LinkAt(Unwrap(doc).link_handler, Unwrap(doc).link_handler.focus).target
            IN  /\ doc' = Some([Unwrap(doc) EXCEPT !.link_handler = r.lh])
                /\ last' = Call("on_event", event,
                                IF focus_changed
                                THEN Consumed(Bind(on_link_focus, target))
                                ELSE IF event = "Enter"
                                     THEN Consumed(Bind(on_link_select, target))
                                     ELSE Ignored)
    /\ UNCHANGED <<on_link_focus, on_link_select, maximum_width>>

\* on_event binding on_link_focus for Enter too
OnEventEnterFocusCallback(event) ==
    /\ IF doc = None \/ Unwrap(doc).link_handler.links = <<>>
       THEN /\ doc' = doc
            /\ last' = Call("on_event", event, Ignored)
       ELSE LET r == EventMove(Unwrap(doc).link_handler, event)
                focus_changed == r.ret
                target == LinkAt(r.lh, r.lh.focus).target
            IN  /\ doc' = Some([Unwrap(doc) EXCEPT !.link_handler = r.lh])
                /\ last' = Call("on_event", event,
                                IF focus_changed
                                THEN Consumed(Bind(on_link_focus, target))
                                ELSE IF event = "Enter"
                                     THEN Consumed(Bind(on_link_focus, target))
                                     ELSE Ignored)
    /\ UNCHANGED <<on_link_focus, on_link_select, maximum_width>>

\* on_event binding on_link_select for a move too
OnEventMoveSelectCallback(event) ==
    /\ IF doc = None \/ Unwrap(doc).link_handler.links = <<>>
       THEN /\ doc' = doc
            /\ last' = Call("on_event", event, Ignored)
       ELSE LET r == EventMove(Unwrap(doc).link_handler, event)
                focus_changed == r.ret
                target == LinkAt(r.lh, r.lh.focus).target
            IN  /\ doc' = Some([Unwrap(doc) EXCEPT !.link_handler = r.lh])
                /\ last' = Call("on_event", event,
                                IF focus_changed
                                THEN Consumed(Bind(on_link_select, target))
                                ELSE IF event = "Enter"
                                     THEN Consumed(Bind(on_link_select, target))
                                     ELSE Ignored)
    /\ UNCHANGED <<on_link_focus, on_link_select, maximum_width>>

\* on_event ignoring Enter when on_link_select is not registered
OnEventEnterNeedsCallback(event) ==
    /\ IF doc = None \/ Unwrap(doc).link_handler.links = <<>>
       THEN /\ doc' = doc
            /\ last' = Call("on_event", event, Ignored)
       ELSE LET r == EventMove(Unwrap(doc).link_handler, event)
                focus_changed == r.ret
                target == LinkAt(r.lh, r.lh.focus).target
            IN  /\ doc' = Some([Unwrap(doc) EXCEPT !.link_handler = r.lh])
                /\ last' = Call("on_event", event,
                                IF focus_changed
                                THEN Consumed(Bind(on_link_focus, target))
                                ELSE IF event = "Enter" /\ IsSome(on_link_select)
                                     THEN Consumed(Bind(on_link_select, target))
                                     ELSE Ignored)
    /\ UNCHANGED <<on_link_focus, on_link_select, maximum_width>>

\* MarkupView::on_event
OnEvent(event) ==
    /\ IF doc = None \/ Unwrap(doc).link_handler.links = <<>>
       THEN /\ doc' = doc
            /\ last' = Call("on_event", event, Ignored)
       ELSE LET r == EventMove(Unwrap(doc).link_handler, event)
                focus_changed == r.ret
                target == LinkAt(r.lh, r.lh.focus).target
            IN  /\ doc' = Some([Unwrap(doc) EXCEPT !.link_handler = r.lh])
                /\ last' = Call("on_event", event,
                                IF focus_changed
                                THEN Consumed(Bind(on_link_focus, target))
                                ELSE IF event = "Enter"
                                     THEN Consumed(Bind(on_link_select, target))
                                     ELSE Ignored)
    /\ UNCHANGED <<on_link_focus, on_link_select, maximum_width>>

(***************************************************************************)
(* Spec: a view whose host sets a maximum width, lays it out at changing   *)
(* sizes, gives it the focus and sends it events.  The host registers no   *)
(* callback: on_link_focus and on_link_select stay None.                   *)
(***************************************************************************)
Next ==
    \/ \E width \in Sizes : SetMaximumWidth(width)
    \/ \E constraint \in Constraints : Render(constraint, Rendered)
    \/ \E direction \in Directions : TakeFocus(direction)
    \/ \E event \in Events : OnEvent(event)

Spec == Init /\ [][Next]_vars

(***************************************************************************)
(* SpecDoc: a view after its first layout, with any document of DocLines,  *)
(* then navigated and laid out again at the same size.                     *)
(***************************************************************************)
InitDoc ==
    /\ on_link_focus = None
    /\ on_link_select = None
    /\ maximum_width = None
    /\ \E c \in DocConstraints :
         \E rendered \in DocRendered[c] :
           /\ doc = Some(rendered)
           /\ last = RenderCall(c, rendered.size, TRUE, 0)

NextDoc ==
    \/ \E constraint \in DocConstraints : Render(constraint, DocRendered)
    \/ \E direction \in Directions : TakeFocus(direction)
    \/ \E event \in Events : OnEvent(event)

SpecDoc == InitDoc /\ [][NextDoc]_vars

(***************************************************************************)
(* SpecEvents: a view whose host registers callbacks at any time, lays it  *)
(* out at changing widths, gives it the focus and sends it events.  No     *)
(* maximum width is set.                                                   *)
(***************************************************************************)
\* the constraints of SpecEvents: the host changes the width only
EventConstraints == { XY(w, MaxSize) : w \in Sizes }

NextEvents ==
    \/ OnLinkFocus
    \/ OnLinkSelect
    \/ \E constraint \in EventConstraints : Render(constraint, Rendered)
    \/ \E direction \in Directions : TakeFocus(direction)
    \/ \E event \in Events : OnEvent(event)

SpecEvents == Init /\ [][NextEvents]_vars

(***************************************************************************)
(* SpecNav: SpecDoc for a host that has registered one of the callbacks,   *)
(* or both, before the first layout.                                       *)
(***************************************************************************)
InitNav ==
    /\ on_link_focus \in { None, Some("f") }
    /\ on_link_select \in { None, Some("g") }
    /\ IsSome(on_link_focus) \/ IsSome(on_link_select)
    /\ maximum_width = None
    /\ \E c \in DocConstraints :
         \E rendered \in DocRendered[c] :
           /\ doc = Some(rendered)
           /\ last = RenderCall(c, rendered.size, TRUE, 0)

SpecNav == InitNav /\ [][NextDoc]_vars

(***************************************************************************)
(* SpecBuild: a renderer builds a document: RenderedDocument::new for any  *)
(* constraint, then push_line after push_line.  doc holds the document     *)
(* under construction; the view's other fields play no part.               *)
(***************************************************************************)
\* the number of elements pushed so far
RECURSIVE NumElements(_)
NumElements(lines) ==
    IF lines = <<>> THEN 0
    ELSE Len(Head(lines)) + NumElements(Tail(lines))

InitBuild ==
    /\ on_link_focus = None
    /\ on_link_select = None
    /\ maximum_width = None
    /\ \E constraint \in Constraints :
         /\ doc = Some(NewDocument(constraint))
         /\ last = Call("new", constraint, None)

\* RenderedDocument::push_line on the document under construction
DocPushLine(line) ==
    /\ Len(Unwrap(doc).lines) < MaxLines
    /\ NumElements(Unwrap(doc).lines) + Len(line) <= MaxElems
    /\ doc' = Some(PushLine(Unwrap(doc), line))
    /\ last' = Call("push_line", line, None)
    /\ UNCHANGED <<on_link_focus, on_link_select, maximum_width>>

NextBuild == \E line \in SeqsUpTo(Elements, MaxElems) : DocPushLine(line)

SpecBuild == InitBuild /\ [][NextBuild]_vars

(***************************************************************************)
(* The cached document, as the properties below read it.                   *)
(***************************************************************************)
Links == Unwrap(doc).link_handler.links
Focus == Unwrap(doc).link_handler.focus
NumLinks == Len(Links)
HasLinks == IsSome(doc) /\ Links # <<>>
LinkIndices == 0 .. (NumLinks - 1)
Row(i) == Links[i + 1].position.y
Column(i) == Links[i + 1].position.x

SetMax(S) == CHOOSE m \in S : \A k \in S : k <= m
SetMin(S) == CHOOSE m \in S : \A k \in S : m <= k

\* the call that led to the next state
IsEvent(call, keys) == call.op = "on_event" /\ call.arg \in keys
MoveSucceeded(call) == call.ret.result = "Consumed"

(***************************************************************************)
(* C1: whenever the cached document has links, the focus is the index of   *)
(* one of them; a document as the renderer returns it has focus 0.         *)
(***************************************************************************)
FocusInRange ==
    /\ HasLinks => (Focus >= 0 /\ Focus < NumLinks)
    /\ \A c \in Constraints : \A d \in Rendered[c] : d.link_handler.focus = 0

\* a re-render has kept a focus other than 0
FocusInRangeWitness ==
    /\ last.op = "render" /\ last.invoked
    /\ HasLinks /\ Focus >= 1 /\ Focus = last.last_focus

(***************************************************************************)
(* C2: Left (Right) succeeds exactly when the link before (after) the      *)
(* focused one exists and is on the same row, and then focuses it; in      *)
(* every other case it fails and the focus stays.  The row of the focused  *)
(* link never changes.                                                     *)
(***************************************************************************)
HorizontalMoveSameRow ==
    [][(IsEvent(last', {"Left", "Right"}) /\ HasLinks) =>
        LET candidate == IF last'.arg = "Left" THEN Focus - 1 ELSE Focus + 1
            ok == /\ candidate >= 0
                  /\ candidate < NumLinks
                  /\ Row(candidate) = Row(Focus)
        IN  /\ MoveSucceeded(last') = ok
            /\ Focus' = IF ok THEN candidate ELSE Focus
            /\ Row(Focus') = Row(Focus)]_vars

\* Right has moved the focus along a row of a document with a second row
HorizontalMoveWitness ==
    /\ IsEvent(last, {"Right"}) /\ MoveSucceeded(last)
    /\ Focus >= 1 /\ Row(Focus - 1) = Row(Focus)
    /\ \E j \in LinkIndices : Row(j) # Row(Focus)

(***************************************************************************)
(* C3: on the leftmost link of its row Left fails, on the rightmost link   *)
(* of its row Right fails, and the focus stays.                            *)
(***************************************************************************)
Leftmost(i) == \A j \in LinkIndices \ {i} : Row(j) = Row(i) => Column(j) > Column(i)
Rightmost(i) == \A j \in LinkIndices \ {i} : Row(j) = Row(i) => Column(j) < Column(i)

RowEndsStopHorizontalMove ==
    [][(IsEvent(last', {"Left", "Right"}) /\ HasLinks
          /\ IF last'.arg = "Left" THEN Leftmost(Focus) ELSE Rightmost(Focus)) =>
        (~MoveSucceeded(last') /\ Focus' = Focus)]_vars

\* Left has failed on the leftmost link of a row, with links on rows above
RowEndsWitness ==
    /\ IsEvent(last, {"Left"}) /\ ~MoveSucceeded(last)
    /\ HasLinks /\ Focus >= 1 /\ Leftmost(Focus)

(***************************************************************************)
(* C4: Up focuses the highest-indexed link before the focused one whose    *)
(* row is strictly above, and fails, the focus unchanged, when there is    *)
(* none.                                                                   *)
(***************************************************************************)
UpCandidates == { i \in LinkIndices : i < Focus /\ Row(i) < Row(Focus) }

UpTakesNearestAbove ==
    [][(IsEvent(last', {"Up"}) /\ HasLinks) =>
        IF UpCandidates # {}
        THEN MoveSucceeded(last') /\ Focus' = SetMax(UpCandidates) /\ Focus' < Focus
        ELSE ~MoveSucceeded(last') /\ Focus' = Focus]_vars

\* Up has chosen the last of two links of the row above
UpWitness ==
    /\ IsEvent(last, {"Up"}) /\ MoveSucceeded(last)
    /\ Focus >= 1 /\ Row(Focus - 1) = Row(Focus)
    /\ NumLinks >= Focus + 2 /\ Row(Focus + 1) > Row(Focus)

(***************************************************************************)
(* C5: Down focuses the lowest-indexed link after the focused one whose    *)
(* row is strictly below, and fails, the focus unchanged, when there is    *)
(* none.                                                                   *)
(***************************************************************************)
DownCandidates == { i \in LinkIndices : i > Focus /\ Row(i) > Row(Focus) }

DownTakesNearestBelow ==
    [][(IsEvent(last', {"Down"}) /\ HasLinks) =>
        IF DownCandidates # {}
        THEN MoveSucceeded(last') /\ Focus' = SetMin(DownCandidates) /\ Focus' > Focus
        ELSE ~MoveSucceeded(last') /\ Focus' = Focus]_vars

\* Down has chosen the first of two links of the row below
DownWitness ==
    /\ IsEvent(last, {"Down"}) /\ MoveSucceeded(last)
    /\ Focus >= 1 /\ Row(Focus - 1) < Row(Focus)
    /\ NumLinks >= Focus + 2 /\ Row(Focus + 1) = Row(Focus)

(***************************************************************************)
(* C6: Up fails from a link on the smallest row of any link, Down fails    *)
(* from a link on the largest row of any link; the focus stays.            *)
(***************************************************************************)
OnTopRow(i) == \A j \in LinkIndices : Row(j) >= Row(i)
OnBottomRow(i) == \A j \in LinkIndices : Row(j) <= Row(i)

OutermostRowsStopVerticalMove ==
    [][(IsEvent(last', {"Up", "Down"}) /\ HasLinks
          /\ IF last'.arg = "Up" THEN OnTopRow(Focus) ELSE OnBottomRow(Focus)) =>
        (~MoveSucceeded(last') /\ Focus' = Focus)]_vars

\* Up has failed on the second link of the top row, with a row below
OutermostRowsWitness ==
    /\ IsEvent(last, {"Up"}) /\ ~MoveSucceeded(last)
    /\ HasLinks /\ Focus >= 1 /\ OnTopRow(Focus)
    /\ \E j \in LinkIndices : Row(j) > Row(Focus)

(***************************************************************************)
(* C7: take_focus on a document with links returns true and focuses link   *)
(* 0 for Up, Left, None and Front and the last link for Down, Right and    *)
(* Back; without links, or without a document, it returns false and        *)
(* changes nothing.                                                        *)
(***************************************************************************)
TowardStart(direction) ==
    \/ direction.kind = "Abs" /\ direction.dir \in {"Up", "Left", "None"}
    \/ direction.kind = "Rel" /\ direction.dir = "Front"

TakeFocusEnds ==
    [][last'.op = "take_focus" =>
        /\ IF HasLinks
           THEN /\ last'.ret = TRUE
                /\ doc' = Some([Unwrap(doc) EXCEPT !.link_handler.focus =
                                   IF TowardStart(last'.arg) THEN 0 ELSE NumLinks - 1])
           ELSE /\ last'.ret = FALSE
                /\ doc' = doc
        /\ UNCHANGED <<on_link_focus, on_link_select, maximum_width>>]_vars

\* take_focus(Down) has focused the last of several links
TakeFocusWitness ==
    /\ last.op = "take_focus" /\ last.arg = [kind |-> "Abs", dir |-> "Down"]
    /\ last.ret = TRUE
    /\ HasLinks /\ NumLinks >= 2 /\ Focus = NumLinks - 1

(***************************************************************************)
(* C8: a render whose clamped width is the cached document's stored width  *)
(* returns the cached size and leaves the document and its focus as they   *)
(* were.                                                                   *)
(***************************************************************************)
SameWidthRenderKeepsDocument ==
    [][(last'.op = "render" /\ IsSome(doc)
          /\ Clamped(last'.arg).x = Unwrap(doc).constraint.x) =>
        (last'.ret = Unwrap(doc).size /\ doc' = doc)]_vars

\* render has returned the cached size of a document whose focus had moved
SameWidthRenderWitness ==
    /\ last.op = "render" /\ ~last.invoked
    /\ HasLinks /\ Focus >= 1
    /\ last.ret = Unwrap(doc).size

(***************************************************************************)
(* C9: render invokes the renderer exactly when no document is cached or   *)
(* the clamped width differs from the cached document's stored width; a    *)
(* render call that follows a render call of the same width, whatever the  *)
(* two heights, does not invoke it.                                        *)
(***************************************************************************)
RendererInvokedOnWidthChangeOnly ==
    [][last'.op = "render" =>
        /\ last'.invoked =
              (doc = None \/ Clamped(last'.arg).x # Unwrap(doc).constraint.x)
        /\ (last.op = "render" /\ last'.arg.x = last.arg.x) => ~last'.invoked]_vars

\* render has returned without the renderer, at a height other than the
\* one the document was rendered for
HeightOnlyWitness ==
    /\ last.op = "render" /\ ~last.invoked
    /\ IsSome(doc) /\ last.arg.y # Unwrap(doc).constraint.y
    /\ last.arg.x = Unwrap(doc).constraint.x

(***************************************************************************)
(* C10: when render replaces a cached document, the new document is the    *)
(* one the renderer returned for the clamped constraint, with the old      *)
(* focus index if the new document has a link of that index and focus 0    *)
(* otherwise.                                                              *)
(***************************************************************************)
RerenderKeepsValidFocus ==
    [][(last'.op = "render" /\ last'.invoked /\ IsSome(doc)) =>
        /\ Focus' = IF Focus < NumLinks' THEN Focus ELSE 0
        /\ [Unwrap(doc') EXCEPT !.link_handler.focus = 0]
               \in Rendered[Clamped(last'.arg)]]_vars

\* a re-render has reset a focus that the new document, which has links,
\* has no link for
RerenderResetWitness ==
    /\ last.op = "render" /\ last.invoked
    /\ HasLinks /\ last.last_focus >= NumLinks /\ Focus = 0

(***************************************************************************)
(* C11: with a maximum width M set, the renderer is given the requested    *)
(* constraint with its width replaced by min(M, requested width), and the  *)
(* document is cached under that width: a render call that follows a       *)
(* render call, both of widths at least M, does not invoke the renderer.   *)
(***************************************************************************)
MaximumWidthClampsRender ==
    [][(last'.op = "render" /\ IsSome(maximum_width)) =>
        LET M == Unwrap(maximum_width)
        IN  /\ last'.invoked =>
                 /\ Unwrap(doc').constraint = XY(Min(M, last'.arg.x), last'.arg.y)
                 /\ [Unwrap(doc') EXCEPT !.link_handler.focus = 0]
                        \in Rendered[XY(Min(M, last'.arg.x), last'.arg.y)]
            /\ (last.op = "render" /\ last.arg.x >= M /\ last'.arg.x >= M) =>
                 ~last'.invoked]_vars

\* render has returned the cached size for a width above the maximum width,
\* which is the width the document is stored under
MaximumWidthWitness ==
    /\ last.op = "render" /\ ~last.invoked
    /\ IsSome(maximum_width) /\ IsSome(doc)
    /\ last.arg.x > Unwrap(maximum_width)
    /\ Unwrap(doc).constraint.x = Unwrap(maximum_width)

(***************************************************************************)
(* The document under construction, read line by line.                     *)
(***************************************************************************)
Lines == Unwrap(doc).lines

\* the link indices push_line stored in the rendered elements, in the order
\* of the pushes
RECURSIVE LineLinkIdxs(_)
LineLinkIdxs(rendered_line) ==
    IF rendered_line = <<>> THEN <<>>
    ELSE (IF IsSome(Head(rendered_line).link_idx)
          THEN <<Unwrap(Head(rendered_line).link_idx)>>
          ELSE <<>>) \o LineLinkIdxs(Tail(rendered_line))

RECURSIVE LinkIdxs(_)
LinkIdxs(lines) ==
    IF lines = <<>> THEN <<>>
    ELSE LineLinkIdxs(Head(lines)) \o LinkIdxs(Tail(lines))

\* the summed widths of the elements of a line
RECURSIVE LineWidth(_)
LineWidth(line) ==
    IF line = <<>> THEN 0
    ELSE TextWidth(Head(line).text) + LineWidth(Tail(line))

(***************************************************************************)
(* C12: after any sequence of push_line calls, each pushed element has a   *)
(* link index exactly when it carries a link target; the number of links   *)
(* registered is the number of those elements, and the k-th index returned *)
(* is k-1, so each index is greater than all returned before it.           *)
(***************************************************************************)
LinksCountPushedTargets ==
    /\ Len(LinkIdxs(Lines)) = NumLinks
    /\ \A k \in 1 .. NumLinks : LinkIdxs(Lines)[k] = k - 1
    /\ last.op = "push_line" =>
         LET line     == last.arg
             rendered == Lines[Len(Lines)]
         IN  /\ Len(rendered) = Len(line)
             /\ \A i \in 1 .. Len(line) :
                  /\ IsSome(rendered[i].link_idx) = IsSome(line[i].link_target)
                  /\ IsSome(line[i].link_target) =>
                       Links[Unwrap(rendered[i].link_idx) + 1].target
                           = Unwrap(line[i].link_target)

\* push_line has registered the second link, on a line after the line of
\* the first link and of an element without a link target
LinksCountWitness ==
    /\ last.op = "push_line" /\ Len(Lines) >= 2
    /\ NumLinks = 2
    /\ LineLinkIdxs(Lines[Len(Lines)]) = <<1>>
    /\ \E j \in 1 .. Len(Lines[1]) : Lines[1][j].link_idx = None
    /\ \E j \in 1 .. Len(Lines[1]) : Lines[1][j].link_idx = Some(0)

(***************************************************************************)
(* C13: after any sequence of push_line calls, the width of the document   *)
(* is the largest summed element width of a pushed line and its height is  *)
(* the number of pushed lines; a document without lines has size (0, 0).   *)
(* The constraint the document was created with plays no part.             *)
(***************************************************************************)
SizeIsContentExtent ==
    /\ Unwrap(doc).size =
          XY(SetMax({0} \cup { LineWidth(Lines[i]) : i \in 1 .. Len(Lines) }),
             Len(Lines))
    /\ Lines = <<>> => Unwrap(doc).size = XY(0, 0)
    /\ last.op = "push_line" => LineWidth(Lines[Len(Lines)]) = LineWidth(last.arg)
    /\ last.op = "new" => (Lines = <<>> /\ Unwrap(doc).constraint = last.arg)

\* the widest line is not the last one pushed, and the document is wider
\* than the constraint it was created with
SizeWitness ==
    /\ last.op = "push_line" /\ Len(Lines) >= 2
    /\ LineWidth(Lines[Len(Lines)]) >= 1
    /\ LineWidth(Lines[Len(Lines)]) < Unwrap(doc).size.x
    /\ Unwrap(doc).size.x > Unwrap(doc).constraint.x
    /\ Unwrap(doc).size.y > Unwrap(doc).constraint.y

(***************************************************************************)
(* C14: an event that reaches a view without a cached document, or with a  *)
(* cached document without links, is Ignored: the result carries no        *)
(* callback, and the document and the view's other fields stay as they     *)
(* were.                                                                   *)
(***************************************************************************)
EventWithoutLinksIgnored ==
    [][(last'.op = "on_event" /\ ~HasLinks) =>
        /\ last'.ret = Ignored
        /\ last'.ret.callback = None
        /\ UNCHANGED <<doc, on_link_focus, on_link_select, maximum_width>>]_vars

\* Enter has been ignored by a view with both callbacks registered and a
\* cached document without links
EventWithoutLinksWitness ==
    /\ last.op = "on_event" /\ last.arg = "Enter" /\ last.ret = Ignored
    /\ IsSome(doc) /\ ~HasLinks /\ Unwrap(doc).lines # <<>>
    /\ IsSome(on_link_focus) /\ IsSome(on_link_select)

(***************************************************************************)
(* What the result of a call hands to the host to run: only the            *)
(* EventResult of on_event can carry a callback; take_focus returns a bool *)
(* and render a size.                                                      *)
(***************************************************************************)
CallbackOf(call) == IF call.op = "on_event" THEN call.ret.callback ELSE None
IsFocusCallback(cb) == IsSome(cb) /\ Unwrap(cb).f = "f"
IsSelectCallback(cb) == IsSome(cb) /\ Unwrap(cb).f = "g"

(***************************************************************************)
(* C15: a result carries the on_link_focus callback only when the call was *)
(* on_event with an arrow key, move_focus succeeded and on_link_focus is   *)
(* registered; the callback is bound to the target of the link that        *)
(* move_focus focused, and the focus is the one move_focus left.           *)
(* take_focus and render never produce it.                                 *)
(***************************************************************************)
FocusCallbackOnlyAfterArrowMove ==
    [][/\ IsFocusCallback(CallbackOf(last')) =>
            /\ last'.arg \in ArrowKeys
            /\ HasLinks
            /\ on_link_focus = Some("f")
            /\ LET r == MoveFocus(Unwrap(doc).link_handler, last'.arg)
               IN  /\ r.ret
                   /\ Focus' = r.lh.focus
                   /\ Focus' # Focus
            /\ Unwrap(CallbackOf(last')).target = Links[Focus' + 1].target
            /\ last'.ret.result = "Consumed"
       /\ last'.op \in {"take_focus", "render"} =>
            ~IsFocusCallback(CallbackOf(last'))]_vars

\* Down has moved the focus to a link with another target, and the result
\* carries on_link_focus bound to that target
FocusCallbackWitness ==
    /\ IsEvent(last, {"Down"}) /\ IsFocusCallback(CallbackOf(last))
    /\ Focus >= 1
    /\ Unwrap(CallbackOf(last)).target = Links[Focus + 1].target
    /\ \A i \in LinkIndices \ {Focus} : Links[i + 1].target # Links[Focus + 1].target

(***************************************************************************)
(* C16: Enter on a cached document with links is Consumed; the result      *)
(* carries on_link_select, if registered and else nothing, bound to the    *)
(* target of the focused link, and the document and its focus stay as they *)
(* were.                                                                   *)
(***************************************************************************)
EnterSelectsFocusedLink ==
    [][(IsEvent(last', {"Enter"}) /\ HasLinks) =>
        /\ last'.ret = Consumed(IF IsSome(on_link_select)
                                THEN Some([f |-> "g", target |-> Links[Focus + 1].target])
                                ELSE None)
        /\ doc' = doc]_vars

\* Enter has selected a link that is not link 0 and whose target no other
\* link has, with both callbacks registered
EnterWitness ==
    /\ IsEvent(last, {"Enter"}) /\ IsSelectCallback(CallbackOf(last))
    /\ IsSome(on_link_focus)
    /\ Focus >= 1
    /\ Unwrap(CallbackOf(last)).target = Links[Focus + 1].target
    /\ \A i \in LinkIndices \ {Focus} : Links[i + 1].target # Links[Focus + 1].target

RowsBelow == { Row(j) : j \in { i \in LinkIndices : Row(i) > Row(Focus) } }
RowsAbove == { Row(j) : j \in { i \in LinkIndices : Row(i) < Row(Focus) } }
GapDocument ==
    /\ HasLinks /\ Len(Unwrap(doc).lines) = 3
    /\ NumLinks = 2 /\ Row(0) = 0 /\ Row(1) = 2

VerticalMoveSkipsEmptyRows ==
    [][(IsEvent(last', {"Up", "Down"}) /\ HasLinks) =>
        LET down == last'.arg = "Down"
            rows == IF down THEN RowsBelow ELSE RowsAbove
        IN  /\ IF rows # {}
               THEN /\ MoveSucceeded(last')
                    /\ Row(Focus') = IF down THEN SetMin(rows) ELSE SetMax(rows)
               ELSE /\ ~MoveSucceeded(last')
                    /\ Focus' = Focus
            /\ GapDocument =>
                 /\ (down /\ Focus = 0) => (MoveSucceeded(last') /\ Focus' = 1)
                 /\ (down /\ Focus = 1) => (~MoveSucceeded(last') /\ Focus' = 1)
                 /\ (~down /\ Focus = 1) => (MoveSucceeded(last') /\ Focus' = 0)]_vars

\* Up has moved the focus from row 2 to row 0 over a row without links
VerticalSkipWitness ==
    /\ GapDocument
    /\ IsEvent(last, {"Up"}) /\ MoveSucceeded(last)
    /\ Focus = 0

(***************************************************************************)
(* C20: take_focus and on_event, and with it move_focus, leave the cached  *)
(* document as it was but for the focus index: lines, links, size and      *)
(* constraint are unchanged.  A render that does not invoke the renderer   *)
(* leaves the whole document unchanged.                                    *)
(***************************************************************************)
OnlyFocusChanges ==
    [][/\ last'.op \in {"take_focus", "on_event"} =>
            IF IsSome(doc)
            THEN /\ IsSome(doc')
                 /\ Unwrap(doc').lines = Unwrap(doc).lines
                 /\ Unwrap(doc').link_handler.links = Unwrap(doc).link_handler.links
                 /\ Unwrap(doc').size = Unwrap(doc).size
                 /\ Unwrap(doc').constraint = Unwrap(doc).constraint
                 /\ doc' = Some([Unwrap(doc) EXCEPT !.link_handler.focus = Focus'])
            ELSE doc' = None
       /\ (last'.op = "render" /\ ~last'.invoked) => doc' = doc]_vars

\* Down has moved the focus to the third link of a document of several
\* lines, which is, but for the focus, a document as the renderer built it
OnlyFocusChangesWitness ==
    /\ IsEvent(last, {"Down"}) /\ MoveSucceeded(last)
    /\ Focus = 2 /\ Len(Unwrap(doc).lines) >= 2
    /\ [Unwrap(doc) EXCEPT !.link_handler.focus = 0]
           \in DocRendered[Unwrap(doc).constraint]

(***************************************************************************)
(* C21: every link of a document built by push_line belongs to an element  *)
(* of a line: its row is the index of the line, its column the summed      *)
(* widths of the elements before it on the line, its width and target      *)
(* those of the element.  So for links i < j, row(i) <= row(j), and on a   *)
(* shared row column(i) + width(i) <= column(j).  This holds after every   *)
(* take_focus, on_event and render of the cached width as well.            *)
(***************************************************************************)
LinkWidth(i) == Links[i + 1].width

LinksLieWhereTheirElementsAre ==
    IsSome(doc) =>
      /\ \A k \in LinkIndices :
           \E y \in 1 .. Len(Lines) : \E j \in 1 .. Len(Lines[y]) :
             /\ Lines[y][j].link_idx = Some(k)
             /\ Links[k + 1].position =
                    XY(LineWidth(SubSeq(Lines[y], 1, j - 1)), y - 1)
             /\ LinkWidth(k) = TextWidth(Lines[y][j].text)
      /\ \A i, j \in LinkIndices :
           i < j =>
             /\ Row(i) <= Row(j)
             /\ Row(i) = Row(j) => Column(i) + LinkWidth(i) <= Column(j)

\* after a successful move: below a line without links, a double-width
\* link, then an element without a link target, then a second link
LinksLieWitness ==
    /\ last.op = "on_event" /\ MoveSucceeded(last)
    /\ HasLinks /\ NumLinks = 2
    /\ Row(0) >= 1 /\ Row(0) = Row(1)
    /\ LinkWidth(0) = 2
    /\ Column(1) > Column(0) + LinkWidth(0)

(***************************************************************************)
(* C22: in a document built by push_line every link index of a rendered    *)
(* element is the index of a link, and every link's index is the link      *)
(* index of exactly one rendered element.  So when there are links, draw   *)
(* on a focused printer highlights exactly one element, the one whose      *)
(* link index is the focus.                                                *)
(***************************************************************************)
Places == UNION { { <<y, j>> : j \in 1 .. Len(Lines[y]) } : y \in 1 .. Len(Lines) }
LinkIdxAt(p) == Lines[p[1]][p[2]].link_idx

LinkIdxsNameLinks ==
    IsSome(doc) =>
      /\ \A p \in Places :
           IsSome(LinkIdxAt(p)) => Unwrap(LinkIdxAt(p)) \in LinkIndices
      /\ \A k \in LinkIndices :
           Cardinality({ p \in Places : LinkIdxAt(p) = Some(k) }) = 1
      /\ HasLinks =>
           /\ Cardinality(DrawHighlighted(Unwrap(doc), TRUE)) = 1
           /\ \A p \in DrawHighlighted(Unwrap(doc), TRUE) : LinkIdxAt(p) = Some(Focus)
      /\ DrawHighlighted(Unwrap(doc), FALSE) = {}

\* take_focus has focused the last of two links; the element draw
\* highlights is on the second line, after an element without a link
HighlightWitness ==
    /\ last.op = "take_focus" /\ last.ret = TRUE
    /\ HasLinks /\ NumLinks = 2 /\ Focus = 1
    /\ DrawHighlighted(Unwrap(doc), TRUE) = { <<2, 2>> }
    /\ LinkIdxAt(<<2, 1>>) = None

(***************************************************************************)
(* C23: after a successful Down, Up succeeds and focuses the last link of  *)
(* the row the focus was on before the Down, which is the link the focus   *)
(* was on only if that was the last of its row; after a successful Up,     *)
(* Down succeeds and focuses the first link of the row the focus was on.   *)
(* An Up event that follows a successful Down event succeeds and ends on   *)
(* the last link of a row, a Down event that follows a successful Up event *)
(* on the first link of a row.                                             *)
(***************************************************************************)
RowOf(i) == { k \in LinkIndices : Row(k) = Row(i) }

VerticalMoveBackEndsAtRowEnd ==
    [][/\ (IsEvent(last', {"Up", "Down"}) /\ HasLinks /\ MoveSucceeded(last')) =>
            LET down == last'.arg = "Down"
                back == MoveFocus(Unwrap(doc').link_handler,
                                  IF down THEN "Up" ELSE "Down")
                end  == IF down THEN SetMax(RowOf(Focus)) ELSE SetMin(RowOf(Focus))
            IN  /\ back.ret
                /\ back.lh.focus = end
                /\ (back.lh.focus = Focus) = (Focus = end)
       /\ (IsEvent(last, {"Down"}) /\ MoveSucceeded(last) /\ IsEvent(last', {"Up"})) =>
            /\ MoveSucceeded(last')
            /\ Focus' = SetMax(RowOf(Focus'))
            /\ Row(Focus') < Row(Focus)
       /\ (IsEvent(last, {"Up"}) /\ MoveSucceeded(last) /\ IsEvent(last', {"Down"})) =>
            /\ MoveSucceeded(last')
            /\ Focus' = SetMin(RowOf(Focus'))
            /\ Row(Focus') > Row(Focus)]_vars

\* Down has left a row of two links for link 2, from where Up goes to link
\* 1: Down from link 0, then Up, is no round trip
NoRoundTripWitness ==
    /\ IsEvent(last, {"Down"}) /\ MoveSucceeded(last)
    /\ Focus = 2 /\ Row(0) = Row(1) /\ Row(1) < Row(2)
    /\ MoveFocus(Unwrap(doc).link_handler, "Up").lh.focus = 1

(***************************************************************************)
(* C24: in a cached document with links, every link index is reached from  *)
(* the focus by a finite sequence of move_focus calls with Left, Right, Up *)
(* and Down.                                                               *)
(***************************************************************************)
\* the foci one move_focus call away from focus i
MovesFrom(lh, i) ==
    { MoveFocus([lh EXCEPT !.focus = i], direction).lh.focus : direction \in ArrowKeys }

\* the foci any number of move_focus calls away from those of S
RECURSIVE ReachedFrom(_, _)
ReachedFrom(lh, S) ==
    LET T == S \cup UNION { MovesFrom(lh, i) : i \in S }
    IN  IF T = S THEN S ELSE ReachedFrom(lh, T)

EveryLinkReachable ==
    HasLinks => ReachedFrom(Unwrap(doc).link_handler, {Focus}) = LinkIndices

\* Left has brought the focus to link 0 of a document whose third link is
\* two rows below, over a row without links
ReachableWitness ==
    /\ IsEvent(last, {"Left"}) /\ MoveSucceeded(last)
    /\ Focus = 0 /\ NumLinks = 3
    /\ Row(0) = Row(1) /\ Row(2) = Row(0) + 2

(***************************************************************************)
(* C25: on a cached document with links, on_event returns Consumed exactly *)
(* when the event is an arrow key whose move_focus succeeds or the event   *)
(* is Enter, whether a callback is registered or not; for an arrow key     *)
(* whose move fails and for every other event it returns Ignored, without  *)
(* a callback, and the focus stays.                                        *)
(***************************************************************************)
ConsumedExactlyOnMoveOrEnter ==
    [][(last'.op = "on_event" /\ HasLinks) =>
        LET moved == /\ last'.arg \in ArrowKeys
                     /\ MoveFocus(Unwrap(doc).link_handler, last'.arg).ret
        IN  /\ last'.ret.result \in {"Consumed", "Ignored"}
            /\ (last'.ret.result = "Consumed") = (moved \/ last'.arg = "Enter")
            /\ moved = (Focus' # Focus)
            /\ last'.ret.result = "Ignored" =>
                 (last'.ret = Ignored /\ doc' = doc)]_vars

\* Enter has been consumed without a callback: on_link_select is not
\* registered, on_link_focus is
ConsumedWithoutCallbackWitness ==
    /\ IsEvent(last, {"Enter"}) /\ last.ret = Consumed(None)
    /\ HasLinks /\ Focus >= 1
    /\ on_link_select = None /\ IsSome(on_link_focus)

=============================================================================
